---- MODULE Spec2Model ----
(***************************************************************************)
(* Token persistence of the bifrost API gateway: the Token value type and  *)
(* the three TokenRepository backends (TokenMemStore, tokenMongo,          *)
(* tokenRedis).  Time is a discrete clock; one unit is the granularity at  *)
(* which the code observes time.Now().                                     *)
(***************************************************************************)
EXTENDS Integers, FiniteSets, Sequences, TLC

\* ------------------------------------------------------------- bounds ---
MaxCalls == 1                 \* calls each concurrent caller makes
MaxClock == 1                 \* tokens are made and written at times 0..MaxClock
MaxChunkSize == 2             \* configured chunk sizes are 1..MaxChunkSize bytes
MaxLen == 5                   \* compressed payloads are 0..MaxLen bytes long
Timeout == 1                  \* _config.Token.Timeout, in clock units
\* The clock runs on until every token made by then has been seen before, at
\* and after its expiration.
EndOfTime == MaxClock + Timeout + 1

IDs == {"T1", "T2"}           \* token ids (uuid.NewV4 or caller-chosen)
Consumers == {"C1", "C2"}     \* consumer ids
Backends == {"mem", "mongo", "redis"}
Procs == {"p1", "p2"}         \* concurrent callers of the key-value backend

\* ------------------------------------------------------------- errors ---
ErrNil == "nil"
ErrKeyExists == "invalid_input: The token key already exits"
ErrTokenNotFound == "invalid_input: The token was not found."
ErrMgoNotFound == "not found"            \* mgo.ErrNotFound
ErrPanic == "panic"                      \* panicIf(err) with err # nil

VARIABLES
    backend,    \* which TokenRepository the process was started with
    clock,      \* time.Now().UTC()
    data,       \* TokenMemStore.data : id -> *Token (the object it points to)
    docs,       \* mongo collection bifrost.tokens : _id -> document
    kv,         \* redis string keys "token:id:<id>" -> [val, expireAt]
    idx,        \* redis set keys "token:consumer:<consumer>" -> set of ids
    op,         \* the last call: name and arguments
    res,        \* what the last call returned
    tk,         \* a Token value held by a caller (Token entity checks)
    valid,      \* the last result of tk.isValid()
    pc,         \* concurrent redis callers: the command each is about to send
    loc,        \* ... the locals of its call
    ret,        \* ... what its last call returned
    cnt,        \* ... how many calls it has made
    mu,         \* TokenMemStore's embedded sync.RWMutex
    g,          \* gelf.gelfConfig: Connection, MaxChunkSizeWan, MaxChunkSizeLan
    compressed, \* gelf.log: what is left to read of the compressed buffer
    conn,       \* gelf.conn: the datagrams written so far
    lg          \* gelf.log: its position and locals

concVars == <<pc, loc, ret, cnt>>
gelfVars == <<g, compressed, conn, lg>>
vars == <<backend, clock, data, docs, kv, idx, op, res, tk, valid,
          pc, loc, ret, cnt, mu, g, compressed, conn, lg>>

\* sync.RWMutex: w, a writer holds it; r, the number of readers holding it.
Unlocked == [w |-> FALSE, r |-> 0]

\* The log shipper with newGelf's defaults filled in, outside any log call.
defaultMaxChunkSizeWan == 1420
defaultMaxChunkSizeLan == 8154
defaultConfig == [Connection |-> "lan",
                  MaxChunkSizeWan |-> defaultMaxChunkSizeWan,
                  MaxChunkSizeLan |-> defaultMaxChunkSizeLan]
NotLogging == [pc |-> "idle", length |-> 0, chunksize |-> 0,
               chunkCountInt |-> 0, i |-> 0, index |-> 0, payload |-> << >>]

\* ------------------------------------------------------ Token entity ---
NoTTL == -1

newToken(consumerID, id, now) ==
    [id |-> id, consumerID |-> consumerID,
     expiration |-> now + Timeout, createdAt |-> now]

isValid(t, now) == IF now > t.expiration THEN FALSE ELSE TRUE

renewNoTimeout(t, now) == [t EXCEPT !.expiration = now]

renew(t, now) == [t EXCEPT !.expiration = now + Timeout]

NoToken == [id |-> "", consumerID |-> "", expiration |-> 0, createdAt |-> 0]

\* Every Token a caller can hold at time now: made by newToken or last renewed
\* at some n <= now (both set Expiration to n + Timeout), its CreatedAt the
\* time it was made or the time an Insert reassigned it, some c <= now.
CallerTokens(now) ==
    { [newToken(o, i, n) EXCEPT !.createdAt = c] :
        o \in Consumers, i \in IDs, n \in 0..now, c \in 0..now }

\* The tokens a caller passes to Insert or Update at the present time.
Writable == IF clock <= MaxClock THEN CallerTokens(clock) ELSE {}

\* Insert assigns CreatedAt itself, so what the caller left there is immaterial.
Insertable == {t \in Writable : t.createdAt = 0}

\* ------------------------------------------------------------ helpers ---
EmptyMap == [k \in {} |-> 0]
Put(m, k, v) == [x \in DOMAIN m \cup {k} |-> IF x = k THEN v ELSE m[x]]
Remove(m, K) == [x \in DOMAIN m \ K |-> m[x]]

Call(name, id, consumerID, fault) ==
    [name |-> name, id |-> id, consumerID |-> consumerID, fault |-> fault]
Result(toks, err) == [tokens |-> toks, err |-> err]

\* ------------------------------------------------------ TokenMemStore ---
MemGetValue(m, key) == IF key \in DOMAIN m THEN {m[key]} ELSE {}

MemGet(key) ==
    /\ backend = "mem"
    /\ op' = Call("Get", key, "", 0)
    /\ res' = Result(MemGetValue(data, key), ErrNil)
    /\ UNCHANGED <<gelfVars, mu, concVars, backend, clock, data, docs, kv, idx, tk, valid>>

MemGetByConsumerIDValue(m, consumerID) ==
    {m[k] : k \in {x \in DOMAIN m : m[x].consumerID = consumerID}}

MemGetByConsumerID(consumerID) ==
    /\ backend = "mem"
    /\ op' = Call("GetByConsumerID", "", consumerID, 0)
    /\ res' = Result(MemGetByConsumerIDValue(data, consumerID), ErrNil)
    /\ UNCHANGED <<gelfVars, mu, concVars, backend, clock, data, docs, kv, idx, tk, valid>>

MemInsertDataOverwrite(token) ==
    Put(data, token.id, [token EXCEPT !.createdAt = clock])

MemInsertData(token) ==
    IF token.id \in DOMAIN data
        THEN data
        ELSE Put(data, token.id, [token EXCEPT !.createdAt = clock])

MemInsert(token) ==
    /\ backend = "mem"
    /\ op' = Call("Insert", token.id, token.consumerID, 0)
    /\ res' = Result({}, IF token.id \in DOMAIN data THEN ErrKeyExists ELSE ErrNil)
    /\ data' = MemInsertData(token)
    /\ UNCHANGED <<gelfVars, mu, concVars, backend, clock, docs, kv, idx, tk, valid>>

MemUpdateDataUpsert(token) == Put(data, token.id, token)

MemUpdateData(token) ==
    IF token.id \notin DOMAIN data THEN data ELSE Put(data, token.id, token)

MemUpdate(token) ==
    /\ backend = "mem"
    /\ op' = Call("Update", token.id, token.consumerID, 0)
    /\ res' = Result({}, IF token.id \notin DOMAIN data
                            THEN ErrTokenNotFound ELSE ErrNil)
    /\ data' = MemUpdateData(token)
    /\ UNCHANGED <<gelfVars, mu, concVars, backend, clock, docs, kv, idx, tk, valid>>

MemDeleteData(key) == Remove(data, {key})

MemDelete(key) ==
    /\ backend = "mem"
    /\ op' = Call("Delete", key, "", 0)
    /\ res' = Result({}, ErrNil)
    /\ data' = MemDeleteData(key)
    /\ UNCHANGED <<gelfVars, mu, concVars, backend, clock, docs, kv, idx, tk, valid>>

MemDeleteByConsumerIDData(consumerID) ==
    Remove(data, {data[k].id : k \in {x \in DOMAIN data :
                                        data[x].consumerID = consumerID}})

MemDeleteByConsumerID(consumerID) ==
    /\ backend = "mem"
    /\ op' = Call("DeleteByConsumerID", "", consumerID, 0)
    /\ res' = Result({}, ErrNil)
    /\ data' = MemDeleteByConsumerIDData(consumerID)
    /\ UNCHANGED <<gelfVars, mu, concVars, backend, clock, docs, kv, idx, tk, valid>>

\* The caller keeps the pointer it passed to Insert/Update or got from Get;
\* renew() on it writes the object the map points to.
MemRenewStored(key) ==
    /\ backend = "mem"
    /\ clock <= MaxClock
    /\ key \in DOMAIN data
    /\ op' = Call("renew", key, "", 0)
    /\ res' = Result({}, ErrNil)
    /\ data' = Put(data, key, renew(data[key], clock))
    /\ UNCHANGED <<gelfVars, mu, concVars, backend, clock, docs, kv, idx, tk, valid>>

\* --------------------------------------------------------- tokenMongo ---
\* bson tags of Token: ExpiresIn is bson:"-"; Source and IPAddress are never
\* read or written by the repository code and are left out of the model.
\* The store is reachable: the "return err" paths of a failed session or
\* command leave the collection as it was and are not modelled.
ToBson(t) ==
    [_id |-> t.id, consumer_id |-> t.consumerID,
     expiration |-> t.expiration, created_at |-> t.createdAt]
FromBson(d) ==
    [id |-> d._id, consumerID |-> d.consumer_id,
     expiration |-> d.expiration, createdAt |-> d.created_at]

MongoMatch(consumerID) == {x \in DOMAIN docs : docs[x].consumer_id = consumerID}

\* Find(...).One: "not found" becomes nil, nil.
MongoGetValue(c, key) == IF key \in DOMAIN c THEN {FromBson(c[key])} ELSE {}

MongoGetNotFoundError(key) ==
    /\ backend = "mongo"
    /\ op' = Call("Get", key, "", 0)
    /\ res' = Result(MongoGetValue(docs, key),
                     IF key \in DOMAIN docs THEN ErrNil ELSE ErrMgoNotFound)
    /\ UNCHANGED <<gelfVars, mu, concVars, backend, clock, data, docs, kv, idx, tk, valid>>

MongoGet(key) ==
    /\ backend = "mongo"
    /\ op' = Call("Get", key, "", 0)
    /\ res' = Result(MongoGetValue(docs, key), ErrNil)
    /\ UNCHANGED <<gelfVars, mu, concVars, backend, clock, data, docs, kv, idx, tk, valid>>

MongoGetByConsumerIDValue(c, consumerID) ==
    {FromBson(c[k]) : k \in {x \in DOMAIN c : c[x].consumer_id = consumerID}}

MongoGetByConsumerID(consumerID) ==
    /\ backend = "mongo"
    /\ op' = Call("GetByConsumerID", "", consumerID, 0)
    /\ res' = Result(MongoGetByConsumerIDValue(docs, consumerID), ErrNil)
    /\ UNCHANGED <<gelfVars, mu, concVars, backend, clock, data, docs, kv, idx, tk, valid>>

\* c.Insert(token): the unique _id index answers E11000 for a stored _id.
MongoInsert(token) ==
    /\ backend = "mongo"
    /\ op' = Call("Insert", token.id, token.consumerID, 0)
    /\ IF token.id \in DOMAIN docs
         THEN res' = Result({}, ErrKeyExists) /\ docs' = docs
         ELSE /\ res' = Result({}, ErrNil)
              /\ docs' = Put(docs, token.id,
                             ToBson([token EXCEPT !.createdAt = clock]))
    /\ UNCHANGED <<gelfVars, mu, concVars, backend, clock, data, kv, idx, tk, valid>>

\* c.Update(selector, token): mgo replaces ONE matching document and answers
\* ErrNotFound when none matches (it is not an upsert).
MongoUpdateUpsert(token) ==
    /\ backend = "mongo"
    /\ op' = Call("Update", token.id, token.consumerID, 0)
    /\ res' = Result({}, ErrNil)
    /\ docs' = Put(docs, token.id, ToBson(token))
    /\ UNCHANGED <<gelfVars, mu, concVars, backend, clock, data, kv, idx, tk, valid>>

MongoUpdate(token) ==
    /\ backend = "mongo"
    /\ op' = Call("Update", token.id, token.consumerID, 0)
    /\ IF token.id \notin DOMAIN docs
         THEN res' = Result({}, ErrMgoNotFound) /\ docs' = docs
         ELSE /\ res' = Result({}, ErrNil)
              /\ docs' = Put(docs, token.id, ToBson(token))
    /\ UNCHANGED <<gelfVars, mu, concVars, backend, clock, data, kv, idx, tk, valid>>

\* c.Remove(selector): mgo removes ONE matching document and answers
\* ErrNotFound when none matches.
MongoDelete(key) ==
    /\ backend = "mongo"
    /\ op' = Call("Delete", key, "", 0)
    /\ IF key \notin DOMAIN docs
         THEN res' = Result({}, ErrMgoNotFound) /\ docs' = docs
         ELSE res' = Result({}, ErrNil) /\ docs' = Remove(docs, {key})
    /\ UNCHANGED <<gelfVars, mu, concVars, backend, clock, data, kv, idx, tk, valid>>

MongoDeleteByConsumerID(consumerID) ==
    /\ backend = "mongo"
    /\ op' = Call("DeleteByConsumerID", "", consumerID, 0)
    /\ IF MongoMatch(consumerID) = {}
         THEN res' = Result({}, ErrMgoNotFound) /\ docs' = docs
         ELSE /\ res' = Result({}, ErrNil)
              /\ \E victim \in MongoMatch(consumerID) :
                    docs' = Remove(docs, {victim})
    /\ UNCHANGED <<gelfVars, mu, concVars, backend, clock, data, kv, idx, tk, valid>>

\* --------------------------------------------------------- tokenRedis ---
\* json tags of Token.  ExpiresIn (json:"expires_in") is written as the caller
\* left it and overwritten by Get after every read, so no stored value of it is
\* ever observed; it is left out, as are Source and IPAddress.
ToJSON(t) ==
    [id |-> t.id, consumer_id |-> t.consumerID,
     expiration |-> t.expiration, created_at |-> t.createdAt]
FromJSON(j) ==
    [id |-> j.id, consumerID |-> j.consumer_id,
     expiration |-> j.expiration, createdAt |-> j.created_at]

\* client.Set(key, val, exp): go-redis sends EX/PX only for exp > 0; a SET
\* without it stores the key with no time-to-live (and drops an earlier one).
RedisSet(store, id, val, exp, now) ==
    Put(store, id, [val |-> val,
                    expireAt |-> IF exp > 0 THEN now + exp ELSE NoTTL])

RedisExists(store, id) == id \in DOMAIN store
RedisDel(store, ids) == Remove(store, ids)
RedisSAddReplace(sets, consumerID, id) == [sets EXCEPT ![consumerID] = {id}]
RedisSAdd(sets, consumerID, id) == [sets EXCEPT ![consumerID] = @ \cup {id}]
RedisSMembers(sets, consumerID) == sets[consumerID]
RedisDelSet(sets, consumerID) == [sets EXCEPT ![consumerID] = {}]

\* What the server has reclaimed once the clock reads now.
RedisExpire(store, now) ==
    Remove(store, {k \in DOMAIN store :
                     store[k].expireAt # NoTTL /\ store[k].expireAt <= now})

RedisGetValue(store, id) ==
    IF RedisExists(store, id) THEN {FromJSON(store[id].val)} ELSE {}

RedisGet(id) ==
    /\ backend = "redis"
    /\ op' = Call("Get", id, "", 0)
    /\ res' = Result(RedisGetValue(kv, id), ErrNil)     \* "redis: nil" -> nil, nil
    /\ UNCHANGED <<gelfVars, mu, concVars, backend, clock, data, docs, kv, idx, tk, valid>>

RedisGetByConsumerIDValue(store, sets, consumerID) ==
    UNION {RedisGetValue(store, id) : id \in RedisSMembers(sets, consumerID)}

RedisGetByConsumerID(consumerID) ==
    /\ backend = "redis"
    /\ op' = Call("GetByConsumerID", "", consumerID, 0)
    /\ res' = Result(RedisGetByConsumerIDValue(kv, idx, consumerID), ErrNil)
    /\ UNCHANGED <<gelfVars, mu, concVars, backend, clock, data, docs, kv, idx, tk, valid>>

RedisInsert(token) ==
    /\ backend = "redis"
    /\ op' = Call("Insert", token.id, token.consumerID, 0)
    /\ IF RedisExists(kv, token.id)
         THEN res' = Result({}, ErrKeyExists) /\ UNCHANGED <<kv, idx>>
         ELSE /\ res' = Result({}, ErrNil)
              /\ kv' = RedisSet(kv, token.id,
                                ToJSON([token EXCEPT !.createdAt = clock]),
                                token.expiration - clock, clock)
              /\ idx' = RedisSAdd(idx, token.consumerID, token.id)
    /\ UNCHANGED <<gelfVars, mu, concVars, backend, clock, data, docs, tk, valid>>

RedisUpdate(token) ==
    /\ backend = "redis"
    /\ op' = Call("Update", token.id, token.consumerID, 0)
    /\ res' = Result({}, ErrNil)
    /\ kv' = RedisSet(kv, token.id, ToJSON(token), 0, clock)
    /\ UNCHANGED <<gelfVars, mu, concVars, backend, clock, data, docs, idx, tk, valid>>

RedisDelete(id) ==
    /\ backend = "redis"
    /\ op' = Call("Delete", id, "", 0)
    /\ res' = Result({}, ErrNil)
    /\ kv' = RedisDel(kv, {id})
    /\ UNCHANGED <<gelfVars, mu, concVars, backend, clock, data, docs, idx, tk, valid>>

\* fault = 0: every command succeeds.
\* fault = 1: SMembers fails.  fault = 2: the Del of one member fails, after
\* the members in done were deleted (the set is ranged over in the order the
\* server returned it).  fault = 3: the Del of the set key fails.
\* A failed command changes nothing in the store; panicIf(err) panics.
RedisFaults == {0, 1, 2, 3}

RedisDeleteByConsumerID(consumerID, fault, done) ==
    /\ backend = "redis"
    /\ op' = Call("DeleteByConsumerID", "", consumerID, fault)
    /\ LET tokenIDs == RedisSMembers(idx, consumerID) IN
       CASE fault = 0 ->
              /\ done = tokenIDs
              /\ res' = Result({}, ErrNil)
              /\ kv' = RedisDel(kv, tokenIDs)
              /\ idx' = RedisDelSet(idx, consumerID)
         [] fault = 1 ->
              /\ done = {}
              /\ res' = Result({}, ErrPanic)
              /\ UNCHANGED <<kv, idx>>
         [] fault = 2 ->
              /\ done \subseteq tokenIDs /\ done # tokenIDs
              /\ res' = Result({}, ErrPanic)
              /\ kv' = RedisDel(kv, done)
              /\ idx' = idx
         [] fault = 3 ->
              /\ done = tokenIDs
              /\ res' = Result({}, ErrPanic)
              /\ kv' = RedisDel(kv, tokenIDs)
              /\ idx' = idx
    /\ UNCHANGED <<gelfVars, mu, concVars, backend, clock, data, docs, tk, valid>>

\* -------------------------------------------------------------- clock ---
Tick ==
    /\ clock < EndOfTime
    /\ clock' = clock + 1
    /\ op' = Call("Tick", "", "", 0)
    /\ res' = Result({}, ErrNil)
    /\ kv' = RedisExpire(kv, clock + 1)
    /\ UNCHANGED <<gelfVars, mu, concVars, backend, data, docs, idx, tk, valid>>

\* ------------------------------------------ tokenRedis, concurrently ---
\* Several callers use the same redis.Client; the server runs one command at
\* a time, so each command is one step and the calls interleave between
\* commands.  base, peer and seen are not program state: they record, as of
\* the moment this call began, the index set of the token's consumer, the
\* call the other caller was in (0 for none) and the calls the other caller
\* had made.
Idle == [name |-> "", token |-> NoToken, now |-> 0, consumerID |-> "",
         left |-> {}, base |-> {}, peer |-> 0, seen |-> 0,
         snap |-> EmptyMap, out |-> {}]

Other(p) == CHOOSE q \in Procs : q # p

Begin(p, name, token, consumerID) ==
    /\ pc[p] = "idle"
    /\ cnt[p] < MaxCalls
    /\ cnt' = [cnt EXCEPT ![p] = @ + 1]
    /\ loc' = [loc EXCEPT ![p] =
                  [name |-> name, token |-> token, now |-> clock,
                   consumerID |-> consumerID, left |-> {},
                   base |-> RedisSMembers(idx, consumerID),
                   peer |-> IF pc[Other(p)] = "idle" THEN 0 ELSE cnt[Other(p)],
                   seen |-> cnt[Other(p)],
                   snap |-> EmptyMap, out |-> {}]]

Return(p, err) ==
    /\ pc' = [pc EXCEPT ![p] = "idle"]
    /\ ret' = [ret EXCEPT ![p] = err]

\* now := time.Now().UTC(); token.CreatedAt = now
InsertCall(p, token) ==
    /\ Begin(p, "Insert", [token EXCEPT !.createdAt = clock], token.consumerID)
    /\ pc' = [pc EXCEPT ![p] = "Exists"]
    /\ UNCHANGED <<gelfVars, mu, backend, clock, data, docs, kv, idx, op, res, tk, valid, ret>>

InsertExists(p) ==
    /\ pc[p] = "Exists"
    /\ IF RedisExists(kv, loc[p].token.id)
         THEN Return(p, ErrKeyExists)
         ELSE pc' = [pc EXCEPT ![p] = "Set"] /\ ret' = ret
    /\ UNCHANGED <<gelfVars, mu, backend, clock, data, docs, kv, idx, op, res, tk, valid, loc, cnt>>

InsertSet(p) ==
    /\ pc[p] = "Set"
    /\ kv' = RedisSet(kv, loc[p].token.id, ToJSON(loc[p].token),
                      loc[p].token.expiration - loc[p].now, clock)
    /\ pc' = [pc EXCEPT ![p] = "SAdd"]
    /\ UNCHANGED <<gelfVars, mu, backend, clock, data, docs, idx, op, res, tk, valid, loc, ret, cnt>>

InsertSAdd(p) ==
    /\ pc[p] = "SAdd"
    /\ idx' = RedisSAdd(idx, loc[p].token.consumerID, loc[p].token.id)
    /\ Return(p, ErrNil)
    /\ UNCHANGED <<gelfVars, mu, backend, clock, data, docs, kv, op, res, tk, valid, loc, cnt>>

DeleteByConsumerIDCall(p, consumerID) ==
    /\ Begin(p, "DeleteByConsumerID", NoToken, consumerID)
    /\ pc' = [pc EXCEPT ![p] = "SMembers"]
    /\ UNCHANGED <<gelfVars, mu, backend, clock, data, docs, kv, idx, op, res, tk, valid, ret>>

DeleteByConsumerIDSMembers(p) ==
    /\ pc[p] = "SMembers"
    /\ loc' = [loc EXCEPT ![p].left = RedisSMembers(idx, loc[p].consumerID)]
    /\ pc' = [pc EXCEPT ![p] = "Del"]
    /\ UNCHANGED <<gelfVars, mu, backend, clock, data, docs, kv, idx, op, res, tk, valid, ret, cnt>>

\* for _, val := range tokenIDs { source.Delete(val) }, in the order the
\* server listed the members
DeleteByConsumerIDDel(p) ==
    /\ pc[p] = "Del"
    /\ \E val \in loc[p].left :
          /\ kv' = RedisDel(kv, {val})
          /\ loc' = [loc EXCEPT ![p].left = @ \ {val}]
    /\ UNCHANGED <<gelfVars, mu, backend, clock, data, docs, idx, op, res, tk, valid, pc, ret, cnt>>

DeleteByConsumerIDDelSet(p) ==
    /\ pc[p] = "Del"
    /\ loc[p].left = {}
    /\ idx' = RedisDelSet(idx, loc[p].consumerID)
    /\ Return(p, ErrNil)
    /\ UNCHANGED <<gelfVars, mu, backend, clock, data, docs, kv, op, res, tk, valid, loc, cnt>>

\* --------------------------------------- TokenMemStore, concurrently ---
\* Several goroutines call the same TokenMemStore.  Every method takes the
\* embedded RWMutex first and releases it (deferred) when it returns; between
\* the two, each read or write of ts.data is one step.  snap and left are set
\* when the lock is taken: the map as it was then (not program state) and the
\* entries a range over ts.data has yet to visit.
MemReads == {"Get", "GetByConsumerID"}
MemWrites == {"Insert", "Update", "Delete", "DeleteByConsumerID"}

MemCall(p, name, token, consumerID) ==
    /\ backend = "mem"
    /\ pc[p] = "idle"
    /\ cnt[p] < MaxCalls
    /\ cnt' = [cnt EXCEPT ![p] = @ + 1]
    /\ loc' = [loc EXCEPT ![p] =
                  [Idle EXCEPT !.name = name, !.token = token, !.now = clock,
                               !.consumerID = consumerID]]
    /\ pc' = [pc EXCEPT ![p] = IF name \in MemReads THEN "RLock" ELSE "Lock"]
    /\ UNCHANGED <<gelfVars, mu, backend, clock, data, docs, kv, idx, op, res,
                   tk, valid, ret>>

\* RWMutex.RLock: waits while a writer holds the lock.
RLock(p) ==
    /\ pc[p] = "RLock"
    /\ ~mu.w
    /\ mu' = [mu EXCEPT !.r = @ + 1]
    /\ pc' = [pc EXCEPT ![p] = "read"]
    /\ loc' = [loc EXCEPT ![p].snap = data, ![p].left = DOMAIN data]
    /\ UNCHANGED <<gelfVars, backend, clock, data, docs, kv, idx, op, res,
                   tk, valid, ret, cnt>>

\* A Lock that does not wait for readers.
LockNoReaderWait(p) ==
    /\ pc[p] = "Lock"
    /\ ~mu.w
    /\ mu' = [mu EXCEPT !.w = TRUE]
    /\ pc' = [pc EXCEPT ![p] = "write"]
    /\ loc' = [loc EXCEPT ![p].snap = data, ![p].left = DOMAIN data]
    /\ UNCHANGED <<gelfVars, backend, clock, data, docs, kv, idx, op, res,
                   tk, valid, ret, cnt>>

\* RWMutex.Lock: waits while a writer or any reader holds the lock.
Lock(p) ==
    /\ pc[p] = "Lock"
    /\ ~mu.w /\ mu.r = 0
    /\ mu' = [mu EXCEPT !.w = TRUE]
    /\ pc' = [pc EXCEPT ![p] = "write"]
    /\ loc' = [loc EXCEPT ![p].snap = data, ![p].left = DOMAIN data]
    /\ UNCHANGED <<gelfVars, backend, clock, data, docs, kv, idx, op, res,
                   tk, valid, ret, cnt>>

\* defer ts.RUnlock()
RUnlock(p) ==
    /\ pc[p] = "RUnlock"
    /\ mu' = [mu EXCEPT !.r = @ - 1]
    /\ pc' = [pc EXCEPT ![p] = "idle"]
    /\ UNCHANGED <<gelfVars, backend, clock, data, docs, kv, idx, op, res,
                   tk, valid, loc, ret, cnt>>

\* defer ts.Unlock()
Unlock(p) ==
    /\ pc[p] = "Unlock"
    /\ mu' = [mu EXCEPT !.w = FALSE]
    /\ pc' = [pc EXCEPT ![p] = "idle"]
    /\ UNCHANGED <<gelfVars, backend, clock, data, docs, kv, idx, op, res,
                   tk, valid, loc, ret, cnt>>

\* result := ts.data[key]; return result, nil
MemGetRead(p) ==
    /\ pc[p] = "read" /\ loc[p].name = "Get"
    /\ loc' = [loc EXCEPT ![p].out = MemGetValue(data, loc[p].token.id)]
    /\ ret' = [ret EXCEPT ![p] = ErrNil]
    /\ pc' = [pc EXCEPT ![p] = "RUnlock"]
    /\ UNCHANGED <<gelfVars, mu, backend, clock, data, docs, kv, idx, op, res,
                   tk, valid, cnt>>

\* for _, token := range ts.data { if token.ConsumerID == consumerID ... }
MemGetByConsumerIDRange(p) ==
    /\ pc[p] = "read" /\ loc[p].name = "GetByConsumerID"
    /\ IF loc[p].left \cap DOMAIN data = {}
         THEN /\ pc' = [pc EXCEPT ![p] = "RUnlock"]
              /\ ret' = [ret EXCEPT ![p] = ErrNil]
              /\ loc' = loc
         ELSE /\ \E k \in loc[p].left \cap DOMAIN data :
                    loc' = [loc EXCEPT
                              ![p].left = @ \ {k},
                              ![p].out = IF data[k].consumerID = loc[p].consumerID
                                           THEN @ \cup {data[k]} ELSE @]
              /\ UNCHANGED <<pc, ret>>
    /\ UNCHANGED <<gelfVars, mu, backend, clock, data, docs, kv, idx, op, res,
                   tk, valid, cnt>>

\* oldToken := ts.data[token.ID]; if oldToken != nil { return AppError{...} }
MemInsertLookup(p) ==
    /\ pc[p] = "write" /\ loc[p].name = "Insert"
    /\ IF loc[p].token.id \in DOMAIN data
         THEN /\ pc' = [pc EXCEPT ![p] = "Unlock"]
              /\ ret' = [ret EXCEPT ![p] = ErrKeyExists]
         ELSE /\ pc' = [pc EXCEPT ![p] = "store"]
              /\ ret' = ret
    /\ UNCHANGED <<gelfVars, mu, backend, clock, data, docs, kv, idx, op, res,
                   tk, valid, loc, cnt>>

\* token.CreatedAt = time.Now().UTC(); ts.data[token.ID] = token; return nil
MemInsertStore(p) ==
    /\ pc[p] = "store" /\ loc[p].name = "Insert"
    /\ data' = Put(data, loc[p].token.id,
                   [loc[p].token EXCEPT !.createdAt = clock])
    /\ ret' = [ret EXCEPT ![p] = ErrNil]
    /\ pc' = [pc EXCEPT ![p] = "Unlock"]
    /\ UNCHANGED <<gelfVars, mu, backend, clock, docs, kv, idx, op, res,
                   tk, valid, loc, cnt>>

\* oldToken := ts.data[token.ID]; if oldToken == nil { return AppError{...} }
MemUpdateLookup(p) ==
    /\ pc[p] = "write" /\ loc[p].name = "Update"
    /\ IF loc[p].token.id \notin DOMAIN data
         THEN /\ pc' = [pc EXCEPT ![p] = "Unlock"]
              /\ ret' = [ret EXCEPT ![p] = ErrTokenNotFound]
         ELSE /\ pc' = [pc EXCEPT ![p] = "store"]
              /\ ret' = ret
    /\ UNCHANGED <<gelfVars, mu, backend, clock, data, docs, kv, idx, op, res,
                   tk, valid, loc, cnt>>

\* ts.data[token.ID] = token; return nil
MemUpdateStore(p) ==
    /\ pc[p] = "store" /\ loc[p].name = "Update"
    /\ data' = Put(data, loc[p].token.id, loc[p].token)
    /\ ret' = [ret EXCEPT ![p] = ErrNil]
    /\ pc' = [pc EXCEPT ![p] = "Unlock"]
    /\ UNCHANGED <<gelfVars, mu, backend, clock, docs, kv, idx, op, res,
                   tk, valid, loc, cnt>>

\* delete(ts.data, key); return nil
MemDeleteStore(p) ==
    /\ pc[p] = "write" /\ loc[p].name = "Delete"
    /\ data' = Remove(data, {loc[p].token.id})
    /\ ret' = [ret EXCEPT ![p] = ErrNil]
    /\ pc' = [pc EXCEPT ![p] = "Unlock"]
    /\ UNCHANGED <<gelfVars, mu, backend, clock, docs, kv, idx, op, res,
                   tk, valid, loc, cnt>>

\* for _, token := range ts.data { if ... { delete(ts.data, token.ID) } }
MemDeleteByConsumerIDRange(p) ==
    /\ pc[p] = "write" /\ loc[p].name = "DeleteByConsumerID"
    /\ IF loc[p].left \cap DOMAIN data = {}
         THEN /\ pc' = [pc EXCEPT ![p] = "Unlock"]
              /\ ret' = [ret EXCEPT ![p] = ErrNil]
              /\ UNCHANGED <<loc, data>>
         ELSE /\ \E k \in loc[p].left \cap DOMAIN data :
                    /\ loc' = [loc EXCEPT ![p].left = @ \ {k}]
                    /\ data' = IF data[k].consumerID = loc[p].consumerID
                                 THEN Remove(data, {data[k].id}) ELSE data
              /\ UNCHANGED <<pc, ret>>
    /\ UNCHANGED <<gelfVars, mu, backend, clock, docs, kv, idx, op, res,
                   tk, valid, cnt>>

\* --------------------------------------------------------------- gelf ---
\* The log shipper.  A byte of the compressed buffer is modelled by its
\* position in it, so that every byte is told from every other.
Connections == {"lan", "wan"}
Configs == [Connection : Connections,
            MaxChunkSizeWan : 1..MaxChunkSize,
            MaxChunkSizeLan : 1..MaxChunkSize]

compress(n) == [k \in 1..n |-> k]

getChunksize(cfg) ==
    IF cfg.Connection = "wan" THEN cfg.MaxChunkSizeWan
    ELSE IF cfg.Connection = "lan" THEN cfg.MaxChunkSizeLan
    ELSE cfg.MaxChunkSizeWan

\* binary.Write(buf, binary.LittleEndian, int8(i)): the low byte of i.
intToBytes(i) == i % 256

\* int(math.Ceil(float64(length) / float64(chunksize)))
Ceil(length, chunksize) == (length + chunksize - 1) \div chunksize

\* bytes.Buffer.Next(n): the next n bytes, or all that are left if fewer.
BufferNext(buf, n) == SubSeq(buf, 1, IF n < Len(buf) THEN n ELSE Len(buf))
BufferRest(buf, n) == SubSeq(buf, (IF n < Len(buf) THEN n ELSE Len(buf)) + 1, Len(buf))

createChunkedMessage(cfg, index, chunkCountInt, buf) ==
    [magic |-> <<intToBytes(30), intToBytes(15)>>,
     id |-> "id",
     index |-> intToBytes(index),
     count |-> intToBytes(chunkCountInt),
     payload |-> BufferNext(buf, getChunksize(cfg))]

\* compressed := g.compress(data); chunksize := g.gelfConfig.MaxChunkSizeLan;
\* length := compressed.Len(); chunkCountInt := ...
LogCall(n) ==
    /\ lg.pc = "idle"
    /\ compressed' = compress(n)
    /\ conn' = << >>
    /\ lg' = [pc |-> IF n > g.MaxChunkSizeLan THEN "chunk" ELSE "whole",
              length |-> n,
              chunksize |-> g.MaxChunkSizeLan,
              chunkCountInt |-> IF n > g.MaxChunkSizeLan
                                  THEN Ceil(n, g.MaxChunkSizeLan) ELSE 0,
              i |-> 0, index |-> 0,
              payload |-> compress(n)]
    /\ UNCHANGED <<concVars, mu, g, backend, clock, data, docs, kv, idx, op, res,
                   tk, valid>>

\* else { g.send(compressed.Bytes()) }
LogSendWhole ==
    /\ lg.pc = "whole"
    /\ conn' = Append(conn, [payload |-> compressed])
    /\ lg' = [lg EXCEPT !.pc = "done"]
    /\ UNCHANGED <<concVars, mu, g, compressed, backend, clock, data, docs, kv,
                   idx, op, res, tk, valid>>

\* for i, index := 0, 0; i < length; i, index = i+chunksize, index+1 {
\*     packet := g.createChunkedMessage(...); g.send(packet.Bytes()) }
LogSendChunk ==
    /\ lg.pc = "chunk"
    /\ IF lg.i < lg.length
         THEN /\ conn' = Append(conn, createChunkedMessage(g, lg.index,
                                                          lg.chunkCountInt, compressed))
              /\ compressed' = BufferRest(compressed, getChunksize(g))
              /\ lg' = [lg EXCEPT !.i = @ + lg.chunksize, !.index = @ + 1]
         ELSE /\ lg' = [lg EXCEPT !.pc = "done"]
              /\ UNCHANGED <<conn, compressed>>
    /\ UNCHANGED <<concVars, mu, g, backend, clock, data, docs, kv, idx, op, res,
                   tk, valid>>

LogReturn ==
    /\ lg.pc = "done"
    /\ lg' = NotLogging
    /\ UNCHANGED <<concVars, mu, g, compressed, conn, backend, clock, data, docs,
                   kv, idx, op, res, tk, valid>>

\* ------------------------------------------------------ Token checks ---
\* A caller makes a token, renews it and asks isValid() as the clock runs.
TokNew(consumerID, id) ==
    /\ clock <= MaxClock
    /\ tk' = newToken(consumerID, id, clock)
    /\ op' = Call("newToken", id, consumerID, 0)
    /\ res' = Result({}, ErrNil)
    /\ UNCHANGED <<gelfVars, mu, concVars, backend, clock, data, docs, kv, idx, valid>>

TokRenew ==
    /\ tk # NoToken
    /\ clock <= MaxClock
    /\ tk' = renew(tk, clock)
    /\ op' = Call("renew", tk.id, tk.consumerID, 0)
    /\ res' = Result({}, ErrNil)
    /\ UNCHANGED <<gelfVars, mu, concVars, backend, clock, data, docs, kv, idx, valid>>

TokIsValid ==
    /\ tk # NoToken
    /\ valid' = isValid(tk, clock)
    /\ op' = Call("isValid", tk.id, tk.consumerID, 0)
    /\ res' = Result({}, ErrNil)
    /\ UNCHANGED <<gelfVars, mu, concVars, backend, clock, data, docs, kv, idx, tk>>

\* ------------------------------------------------------ specification ---
Init ==
    /\ backend \in Backends
    /\ clock = 0
    /\ data = EmptyMap
    /\ docs = EmptyMap
    /\ kv = EmptyMap
    /\ idx = [c \in Consumers |-> {}]
    /\ op = Call("init", "", "", 0)
    /\ res = Result({}, ErrNil)
    /\ tk = NoToken
    /\ valid = FALSE
    /\ pc = [p \in Procs |-> "idle"]
    /\ loc = [p \in Procs |-> Idle]
    /\ ret = [p \in Procs |-> ErrNil]
    /\ cnt = [p \in Procs |-> 0]
    /\ mu = Unlocked
    /\ g = defaultConfig /\ compressed = << >> /\ conn = << >> /\ lg = NotLogging

NextMem ==
    \/ \E key \in IDs : MemGet(key)
    \/ \E c \in Consumers : MemGetByConsumerID(c)
    \/ \E t \in Insertable : MemInsert(t)
    \/ \E t \in Writable : MemUpdate(t)
    \/ \E key \in IDs : MemDelete(key)
    \/ \E c \in Consumers : MemDeleteByConsumerID(c)
    \/ \E key \in IDs : MemRenewStored(key)

NextMongo ==
    \/ \E key \in IDs : MongoGet(key)
    \/ \E c \in Consumers : MongoGetByConsumerID(c)
    \/ \E t \in Insertable : MongoInsert(t)
    \/ \E t \in Writable : MongoUpdate(t)
    \/ \E key \in IDs : MongoDelete(key)
    \/ \E c \in Consumers : MongoDeleteByConsumerID(c)

NextRedis ==
    \/ \E id \in IDs : RedisGet(id)
    \/ \E c \in Consumers : RedisGetByConsumerID(c)
    \/ \E t \in Insertable : RedisInsert(t)
    \/ \E t \in Writable : RedisUpdate(t)
    \/ \E id \in IDs : RedisDelete(id)
    \/ \E c \in Consumers, f \in RedisFaults, done \in SUBSET IDs :
          RedisDeleteByConsumerID(c, f, done)

\* One backend is chosen at start; callers invoke it one call at a time.
Next == Tick \/ NextMem \/ NextMongo \/ NextRedis
Spec == Init /\ [][Next]_vars

InitMem == Init /\ backend = "mem"
SpecMem == InitMem /\ [][Tick \/ NextMem]_vars

InitMongo == Init /\ backend = "mongo"
SpecMongo == InitMongo /\ [][Tick \/ NextMongo]_vars

InitRedis == Init /\ backend = "redis"
SpecRedis == InitRedis /\ [][Tick \/ NextRedis]_vars

\* The Token entity alone.
NextToken ==
    \/ Tick
    \/ \E c \in Consumers, id \in IDs : TokNew(c, id)
    \/ TokRenew
    \/ TokIsValid
SpecToken == InitMem /\ [][NextToken]_vars

\* Tokens are inserted and consumers are cascade-deleted; nothing else writes.
NextCascade ==
    \/ \E t \in Insertable : MemInsert(t)
    \/ \E t \in Insertable : MongoInsert(t)
    \/ \E t \in Insertable : RedisInsert(t)
    \/ \E c \in Consumers : MemDeleteByConsumerID(c)
    \/ \E c \in Consumers : MongoDeleteByConsumerID(c)
    \/ \E c \in Consumers, f \in RedisFaults, done \in SUBSET IDs :
          RedisDeleteByConsumerID(c, f, done)
SpecCascade == Init /\ [][NextCascade]_vars

\* The key-value backend under concurrent callers.  It starts empty or with
\* one token inserted earlier.
PriorToken(c) == newToken(c, "T0", 0)

InitConc ==
    /\ backend = "redis"
    /\ clock = 0
    /\ data = EmptyMap
    /\ docs = EmptyMap
    /\ \/ kv = EmptyMap /\ idx = [c \in Consumers |-> {}]
       \/ \E c \in Consumers :
             /\ kv = RedisSet(EmptyMap, "T0", ToJSON(PriorToken(c)),
                              PriorToken(c).expiration - 0, 0)
             /\ idx = RedisSAdd([x \in Consumers |-> {}], c, "T0")
    /\ op = Call("init", "", "", 0)
    /\ res = Result({}, ErrNil)
    /\ tk = NoToken
    /\ valid = FALSE
    /\ pc = [p \in Procs |-> "idle"]
    /\ loc = [p \in Procs |-> Idle]
    /\ ret = [p \in Procs |-> ErrNil]
    /\ cnt = [p \in Procs |-> 0]
    /\ mu = Unlocked
    /\ g = defaultConfig /\ compressed = << >> /\ conn = << >> /\ lg = NotLogging

NextConc ==
    \/ \E p \in Procs, t \in Insertable : InsertCall(p, t)
    \/ \E p \in Procs : InsertExists(p)
    \/ \E p \in Procs : InsertSet(p)
    \/ \E p \in Procs : InsertSAdd(p)
    \/ \E p \in Procs, c \in Consumers : DeleteByConsumerIDCall(p, c)
    \/ \E p \in Procs : DeleteByConsumerIDSMembers(p)
    \/ \E p \in Procs : DeleteByConsumerIDDel(p)
    \/ \E p \in Procs : DeleteByConsumerIDDelSet(p)
SpecConc == InitConc /\ [][NextConc]_vars

\* The in-process backend under concurrent callers.  It starts empty or with
\* two tokens of one consumer inserted earlier.
PriorData ==
    Put(Put(EmptyMap, "T1", newToken("C1", "T1", 0)), "T2", newToken("C1", "T2", 0))

InitMemConc ==
    /\ backend = "mem"
    /\ clock = 0
    /\ data \in {EmptyMap, PriorData}
    /\ docs = EmptyMap
    /\ kv = EmptyMap
    /\ idx = [c \in Consumers |-> {}]
    /\ op = Call("init", "", "", 0)
    /\ res = Result({}, ErrNil)
    /\ tk = NoToken
    /\ valid = FALSE
    /\ pc = [p \in Procs |-> "idle"]
    /\ loc = [p \in Procs |-> Idle]
    /\ ret = [p \in Procs |-> ErrNil]
    /\ cnt = [p \in Procs |-> 0]
    /\ mu = Unlocked
    /\ g = defaultConfig /\ compressed = << >> /\ conn = << >> /\ lg = NotLogging

NextMemConc ==
    \/ \E p \in Procs, key \in IDs :
          MemCall(p, "Get", [NoToken EXCEPT !.id = key], "")
    \/ \E p \in Procs, c \in Consumers : MemCall(p, "GetByConsumerID", NoToken, c)
    \/ \E p \in Procs, t \in Insertable : MemCall(p, "Insert", t, t.consumerID)
    \/ \E p \in Procs, t \in Writable : MemCall(p, "Update", t, t.consumerID)
    \/ \E p \in Procs, key \in IDs :
          MemCall(p, "Delete", [NoToken EXCEPT !.id = key], "")
    \/ \E p \in Procs, c \in Consumers :
          MemCall(p, "DeleteByConsumerID", NoToken, c)
    \/ \E p \in Procs : RLock(p)
    \/ \E p \in Procs : Lock(p)
    \/ \E p \in Procs : RUnlock(p)
    \/ \E p \in Procs : Unlock(p)
    \/ \E p \in Procs : MemGetRead(p)
    \/ \E p \in Procs : MemGetByConsumerIDRange(p)
    \/ \E p \in Procs : MemInsertLookup(p)
    \/ \E p \in Procs : MemInsertStore(p)
    \/ \E p \in Procs : MemUpdateLookup(p)
    \/ \E p \in Procs : MemUpdateStore(p)
    \/ \E p \in Procs : MemDeleteStore(p)
    \/ \E p \in Procs : MemDeleteByConsumerIDRange(p)
SpecMemConc == InitMemConc /\ [][NextMemConc]_vars

\* The log shipper with some configuration, logging one message after another.
InitGelf ==
    /\ backend = "mem"
    /\ clock = 0
    /\ data = EmptyMap
    /\ docs = EmptyMap
    /\ kv = EmptyMap
    /\ idx = [c \in Consumers |-> {}]
    /\ op = Call("init", "", "", 0)
    /\ res = Result({}, ErrNil)
    /\ tk = NoToken
    /\ valid = FALSE
    /\ pc = [p \in Procs |-> "idle"]
    /\ loc = [p \in Procs |-> Idle]
    /\ ret = [p \in Procs |-> ErrNil]
    /\ cnt = [p \in Procs |-> 0]
    /\ mu = Unlocked
    /\ g \in Configs
    /\ compressed = << >> /\ conn = << >> /\ lg = NotLogging

NextGelf ==
    \/ \E n \in 0..MaxLen : LogCall(n)
    \/ LogSendWhole
    \/ LogSendChunk
    \/ LogReturn
SpecGelf == InitGelf /\ [][NextGelf]_vars

\* ------------------------------------------------- what a caller sees ---
StoredIn(m, c, store, id) ==
    CASE backend = "mem" -> id \in DOMAIN m
      [] backend = "mongo" -> id \in DOMAIN c
      [] backend = "redis" -> RedisExists(store, id)

GetValueIn(m, c, store, id) ==
    CASE backend = "mem" -> MemGetValue(m, id)
      [] backend = "mongo" -> MongoGetValue(c, id)
      [] backend = "redis" -> RedisGetValue(store, id)

GetByConsumerIDValueIn(m, c, store, sets, consumerID) ==
    CASE backend = "mem" -> MemGetByConsumerIDValue(m, consumerID)
      [] backend = "mongo" -> MongoGetByConsumerIDValue(c, consumerID)
      [] backend = "redis" -> RedisGetByConsumerIDValue(store, sets, consumerID)

\* Before the step ...
Stored(id) == StoredIn(data, docs, kv, id)
GetValue(id) == GetValueIn(data, docs, kv, id)
GetByConsumerIDValue(consumerID) ==
    GetByConsumerIDValueIn(data, docs, kv, idx, consumerID)
\* ... and after it.
StoredNext(id) == StoredIn(data', docs', kv', id)
GetValueNext(id) == GetValueIn(data', docs', kv', id)
GetByConsumerIDValueNext(consumerID) ==
    GetByConsumerIDValueIn(data', docs', kv', idx', consumerID)

StoreUnchanged == data' = data /\ docs' = docs /\ kv' = kv /\ idx' = idx
\* ------------------------------------------------------------- claims ---

\* C1: in every backend, once DeleteByConsumerID(o) has returned without
\* error after tokens were inserted for o, GetByConsumerID(o) is empty and
\* Get(id) is absent for every token that was stored for o.
C1_OwnerCascade ==
    [][(op'.name = "DeleteByConsumerID" /\ res'.err = ErrNil) =>
         /\ GetByConsumerIDValueNext(op'.consumerID) = {}
         /\ \A id \in IDs :
               (\E t \in GetValue(id) : t.consumerID = op'.consumerID)
                  => GetValueNext(id) = {}]_vars

\* C2: in every backend, Insert of a token whose id is stored answers the
\* duplicate-key error and changes nothing in the store (records and index).
C2_Uniqueness ==
    [][(op'.name = "Insert" /\ Stored(op'.id)) =>
         (res'.err = ErrKeyExists /\ StoreUnchanged)]_vars

C2_Witness ==
    /\ op.name = "Insert" /\ res.err = ErrKeyExists
    /\ Stored(op.id)
    /\ \E t \in GetValue(op.id) : t.consumerID # op.consumerID

\* C3: isValid() answers true exactly when now is strictly before expiresAt;
\* at now = expiresAt it answers false.
C3_ValidityBoundary ==
    op.name = "isValid" => (valid <=> clock < tk.expiration)

\* C4: in the key-value backend an id is in a consumer's index set exactly
\* when a primary record with that id and that consumer exists.
C4_IndexConsistent ==
    backend = "redis" =>
        \A c \in Consumers, id \in IDs :
            id \in RedisSMembers(idx, c)
                <=> (\E t \in RedisGetValue(kv, id) : t.consumerID = c)

\* C5: in the key-value backend no primary record outlives its token's stored
\* expiresAt: once the clock has passed it, Get(id) finds nothing.
C5_NativeExpiry ==
    backend = "redis" =>
        \A id \in IDs :
            \A t \in RedisGetValue(kv, id) : ~(clock > t.expiration)

\* C6: when the deletion of one member's record fails, DeleteByConsumerID has
\* still deleted every other member's record and the index key.
C6_BestEffortCascade ==
    [][(op'.name = "DeleteByConsumerID" /\ op'.fault = 2) =>
         /\ Cardinality(RedisSMembers(idx, op'.consumerID) \cap DOMAIN kv') <= 1
         /\ RedisSMembers(idx', op'.consumerID) = {}]_vars

\* C8: in every backend, Delete of an id with no stored record answers no
\* error and leaves the store unchanged (so a second Delete equals the first).
C8_DeleteIdempotent ==
    [][(op'.name = "Delete" /\ ~Stored(op'.id)) =>
         (res'.err = ErrNil /\ StoreUnchanged)]_vars

C10_MemUpdateMustExist ==
    [][(op'.name = "Update" /\ backend = "mem") =>
         IF ~Stored(op'.id)
           THEN res'.err = ErrTokenNotFound /\ data' = data
           ELSE /\ res'.err = ErrNil
                /\ DOMAIN data' = DOMAIN data
                /\ \A k \in DOMAIN data \ {op'.id} : data'[k] = data[k]
                /\ \E t \in Writable :
                      /\ t.id = op'.id /\ t.consumerID = op'.consumerID
                      /\ data'[op'.id] = t]_vars

C10_Witness ==
    /\ backend = "mem" /\ op.name = "Update"
    /\ res.err = ErrTokenNotFound
    /\ data # EmptyMap /\ ~Stored(op.id)
\* Two callers have returned from overlapping successful Inserts of tokens
\* with different ids for the same consumer: q's Insert began with no other
\* call under way, p's was the one call that began while q's was under way,
\* and neither caller has made a call since.
BothInserted(p, q) ==
    /\ p # q
    /\ pc[p] = "idle" /\ pc[q] = "idle"
    /\ loc[p].name = "Insert" /\ loc[q].name = "Insert"
    /\ ret[p] = ErrNil /\ ret[q] = ErrNil
    /\ loc[q].peer = 0 /\ cnt[p] = loc[q].seen + 1
    /\ loc[p].peer # 0 /\ loc[p].peer = cnt[q]
    /\ loc[p].token.consumerID = loc[q].token.consumerID
    /\ loc[p].token.id # loc[q].token.id

\* C7: after two concurrent Inserts of different ids for one consumer have
\* returned, under every interleaving of their commands, the consumer's index
\* set is its earlier members plus both ids, and both primary records exist.
C7_ConcurrentIndex ==
    \A p \in Procs, q \in Procs :
        BothInserted(p, q) =>
            /\ RedisSMembers(idx, loc[p].token.consumerID)
                 = loc[p].base \cup {loc[p].token.id, loc[q].token.id}
            /\ RedisGetValue(kv, loc[p].token.id) = {loc[p].token}
            /\ RedisGetValue(kv, loc[q].token.id) = {loc[q].token}

C7_Witness ==
    \E p \in Procs, q \in Procs :
        /\ BothInserted(p, q)
        /\ loc[p].base # {}
        /\ Cardinality(RedisSMembers(idx, loc[p].token.consumerID)) = 3

\* C11: renew() never decreases Expiration: with the clock at or after the
\* token's creation and a fixed Timeout, Expiration after renew() is greater
\* than or equal to Expiration before it.
C11_RenewMonotonic ==
    [][op'.name = "renew" => tk'.expiration >= tk.expiration]_vars

C11_Witness ==
    /\ op.name = "renew" /\ tk # NoToken
    /\ clock > tk.createdAt
    /\ tk.expiration = clock + Timeout

\* C12: in every backend, Get of an id with no stored record answers an absent
\* token and no error, whatever calls came before.
C12_NotFoundSymmetry ==
    [][(op'.name = "Get" /\ ~Stored(op'.id)) =>
         (res'.tokens = {} /\ res'.err = ErrNil)]_vars

C12_Witness ==
    /\ op.name = "Get" /\ backend = "mongo"
    /\ ~Stored(op.id) /\ res = Result({}, ErrNil)
    /\ \E id \in IDs : Stored(id)

\* C13: in every backend, the record stored by a successful Insert of a token
\* made by newToken has Expiration = CreatedAt + Timeout, CreatedAt being the
\* time Insert assigned, also when the clock advanced between newToken and
\* Insert.
C13_CreationTimeRelation ==
    [][(op'.name = "Insert" /\ res'.err = ErrNil) =>
         \A t \in GetValueNext(op'.id) :
            t.expiration = t.createdAt + Timeout]_vars

\* C14: in the in-process backend the Expiration of a stored record, as a later
\* Get returns it, changes only in an Update; renew() on the caller's token
\* leaves it as it was.
C14_MemPersistenceBoundary ==
    [][(backend = "mem" /\ op'.name # "Update") =>
         \A id \in DOMAIN data \cap DOMAIN data' :
            \A t \in MemGetValue(data, id), u \in MemGetValue(data', id) :
               u.expiration = t.expiration]_vars

\* C17: in every backend, after any calls of Insert, Update, Delete and
\* DeleteByConsumerID, every token GetByConsumerID(o) returns has ConsumerID o.
C17_OwnerScoping ==
    op.name = "GetByConsumerID" =>
        \A t \in res.tokens : t.consumerID = op.consumerID

\* Two callers have returned from overlapping calls: p's call began while
\* q's was under way.
Overlapped(p, q) ==
    /\ p # q
    /\ pc[p] = "idle" /\ pc[q] = "idle"
    /\ loc[p].peer # 0 /\ loc[p].peer = cnt[q]

\* C15: when Insert is called concurrently for two tokens with the same id,
\* under every interleaving of Exists and Set at most one of the two calls
\* answers no error.
C15_ConcurrentDuplicateInsert ==
    \A p \in Procs, q \in Procs :
        (/\ Overlapped(p, q)
         /\ loc[p].name = "Insert" /\ loc[q].name = "Insert"
         /\ loc[p].token.id = loc[q].token.id)
            => ~(ret[p] = ErrNil /\ ret[q] = ErrNil)

\* C16: after an Insert of a token of consumer o has returned without error,
\* whatever DeleteByConsumerID(o) ran concurrently with it, a
\* DeleteByConsumerID(o) that starts afterwards removes the token: Get(id) is
\* absent after it.
C16_RevocationUnderConcurrency ==
    \A p \in Procs, q \in Procs :
        (/\ Overlapped(p, q) \/ Overlapped(q, p)
         /\ loc[p].name = "Insert" /\ ret[p] = ErrNil
         /\ loc[q].name = "DeleteByConsumerID"
         /\ loc[q].consumerID = loc[p].token.consumerID)
            => LET o == loc[p].token.consumerID
                   later == RedisDel(kv, RedisSMembers(idx, o))
               IN  RedisGetValue(later, loc[p].token.id) = {}

\* Inside a critical section: the lock is held, from taking it to releasing.
InRead(p) == pc[p] \in {"read", "RUnlock"}
InWrite(p) == pc[p] \in {"write", "store", "Unlock"}

\* What a call that has finished its body (and still holds the lock) has read
\* and written is what the same call does run alone on the map as it was when
\* the call took the lock.
SerialOutcome(p) ==
    LET m == loc[p].snap
        t == loc[p].token
        c == loc[p].consumerID
    IN  CASE loc[p].name = "Get" ->
                 data = m /\ loc[p].out = MemGetValue(m, t.id)
          [] loc[p].name = "GetByConsumerID" ->
                 data = m /\ loc[p].out = MemGetByConsumerIDValue(m, c)
          [] loc[p].name = "Insert" ->
                 IF t.id \in DOMAIN m
                   THEN data = m /\ ret[p] = ErrKeyExists
                   ELSE /\ data = Put(m, t.id, [t EXCEPT !.createdAt = clock])
                        /\ ret[p] = ErrNil
          [] loc[p].name = "Update" ->
                 IF t.id \notin DOMAIN m
                   THEN data = m /\ ret[p] = ErrTokenNotFound
                   ELSE data = Put(m, t.id, t) /\ ret[p] = ErrNil
          [] loc[p].name = "Delete" ->
                 data = Remove(m, {t.id})
          [] loc[p].name = "DeleteByConsumerID" ->
                 data = Remove(m, {k \in DOMAIN m : m[k].consumerID = c})

\* C18: in the in-process backend, under every interleaving of concurrent
\* calls, no write is inside its critical section while any other call is
\* inside its own, the lock's state counts exactly the calls inside, and each
\* call reads and leaves the map as if it ran alone at the moment it took the
\* lock (a serial order of the calls).  Two reads may be inside together.
C18_MemLocking ==
    /\ \A p \in Procs, q \in Procs :
          (p # q /\ InWrite(p)) => (~InRead(q) /\ ~InWrite(q))
    /\ mu.r = Cardinality({p \in Procs : InRead(p)})
    /\ mu.w <=> (\E p \in Procs : InWrite(p))
    /\ \A p \in Procs : pc[p] \in {"RUnlock", "Unlock"} => SerialOutcome(p)

C18_Witness ==
    /\ \A p \in Procs : InRead(p)
    /\ mu.r = Cardinality(Procs)
    /\ data # EmptyMap

\* The payloads of the datagrams, concatenated in the order they were sent.
RECURSIVE Concatenated(_)
Concatenated(packets) ==
    IF packets = << >> THEN << >>
    ELSE packets[1].payload \o Concatenated(Tail(packets))

\* C19: for a compressed payload longer than the chunk size (that of the
\* configured connection and the one log compares the length with), with
\* Connection "lan" or "wan", log sends chunks whose payloads concatenated in
\* index order are the whole payload, each payload is at most the chunk size
\* of the configured connection, and the count in every chunk header is the
\* number of chunks sent.
C19_Chunking ==
    (/\ lg.pc = "done"
     /\ lg.length > getChunksize(g) /\ lg.length > g.MaxChunkSizeLan) =>
        /\ Concatenated(conn) = lg.payload
        /\ \A k \in 1..Len(conn) :
              /\ Len(conn[k].payload) <= getChunksize(g)
              /\ "count" \in DOMAIN conn[k]
              /\ conn[k].index = k - 1
              /\ conn[k].count = Len(conn)
====
